---- MODULE Spec2Model ----
(***************************************************************************)
(* PVGPpy/read/tables.py: the three table readers readGSLIB,               *)
(* readPackedBinaries and readDelimetedFile (Python 2: reader.next(),      *)
(* integer "/" on ints).                                                   *)
(*                                                                         *)
(* A text file is the sequence of its lines, each line the sequence of its *)
(* characters with its line terminator kept, as iterating a Python file    *)
(* yields them.  A binary file is the sequence of its bytes.  Strings are  *)
(* sequences of one-character strings.  One call of one reader runs from   *)
(* pc = "call" to pc = "done" (returned) or pc = "failed" (raised).        *)
(***************************************************************************)
EXTENDS Integers, Sequences, FiniteSets, TLC

VARIABLES
    fn,        \* the reader that is called
    exists,    \* whether FileName names a readable file
    content,   \* the file: lines (text readers) or bytes (packed reader)
    written,   \* TRUE when content was produced by WriteGSLIB from srcTable
    srcTable,  \* the table written (<<>> otherwise)
    deli, useTab, numIgLns, hasTits, dblVals, dataNm,   \* the arguments
    pc,        \* position in the called function
    fh,        \* the file object: "unopened", "open", "closed"
    pos,       \* number of lines of the file consumed so far
    i,         \* loop counter
    header,    \* readGSLIB: header
    numCols,   \* readGSLIB: numCols
    titles,    \* titles
    data,      \* data (list of rows)
    tn,        \* readPackedBinaries: tn
    raw,       \* readPackedBinaries: raw
    pdo,       \* the vtkTable under construction
    ret,       \* the returned tuple (<<>> while nothing is returned)
    err        \* the exception raised ("" while none)

vars == <<fn, exists, content, written, srcTable, deli, useTab, numIgLns,
          hasTits, dblVals, dataNm, pc, fh, pos, i, header, numCols, titles,
          data, tn, raw, pdo, ret, err>>

(***************************************************************************)
(* Bounds of the model.                                                    *)
(***************************************************************************)
MaxLines == 4      \* lines of an arbitrary text file
MaxSkip == 1       \* numIgLns
MaxRows == 2       \* rows of a written table
MaxBytes == 9      \* bytes of a binary file

(***************************************************************************)
(* Strings.                                                                *)
(***************************************************************************)
DigitChars == <<"0", "1", "2", "3", "4", "5", "6", "7", "8", "9">>

IsDigit(c) == \E d \in 1..10 : DigitChars[d] = c

DigitVal(c) == (CHOOSE d \in 1..10 : DigitChars[d] = c) - 1

IsEOL(c) == c \in {"\r", "\n"}

IsSpace(c) == c \in {" ", "\t", "\r", "\n"}

Min(a, b) == IF a < b THEN a ELSE b

\* s.rstrip('\r\n'): every trailing CR or LF is removed
RECURSIVE RStripEOL(_)
RStripEOL(s) ==
    IF s # <<>> /\ IsEOL(s[Len(s)]) THEN RStripEOL(SubSeq(s, 1, Len(s) - 1))
    ELSE s

RECURSIVE RStripSpace(_)
RStripSpace(s) ==
    IF s # <<>> /\ IsSpace(s[Len(s)]) THEN RStripSpace(SubSeq(s, 1, Len(s) - 1))
    ELSE s

RECURSIVE LStripSpace(_)
LStripSpace(s) ==
    IF s # <<>> /\ IsSpace(s[1]) THEN LStripSpace(Tail(s))
    ELSE s

\* the value of a non-empty run of decimal digits
RECURSIVE DigitsVal(_)
DigitsVal(s) ==
    IF s = <<>> THEN 0
    ELSE 10 * DigitsVal(SubSeq(s, 1, Len(s) - 1)) + DigitVal(s[Len(s)])

\* mutant: the sign is read but the magnitude is returned
ParseNumUnsigned(s) ==
    LET t == LStripSpace(RStripSpace(s))
        signed == t # <<>> /\ t[1] \in {"-", "+"}
        body == IF signed THEN Tail(t) ELSE t
        good == body # <<>> /\ \A k \in 1..Len(body) : IsDigit(body[k])
    IN  IF good THEN [ok |-> TRUE, val |-> DigitsVal(body)]
        ELSE [ok |-> FALSE, val |-> 0]

\* int(s) and the string-to-float conversion on integer numerals: surrounding
\* white space is ignored, an optional sign, then one or more digits.
ParseNum(s) ==
    LET t == LStripSpace(RStripSpace(s))
        signed == t # <<>> /\ t[1] \in {"-", "+"}
        body == IF signed THEN Tail(t) ELSE t
        good == body # <<>> /\ \A k \in 1..Len(body) : IsDigit(body[k])
    IN  IF good
        THEN [ok |-> TRUE,
              val |-> IF signed /\ t[1] = "-" THEN 0 - DigitsVal(body)
                      ELSE DigitsVal(body)]
        ELSE [ok |-> FALSE, val |-> 0]

\* str(n) of an integer
RECURSIVE NatStr(_)
NatStr(n) ==
    IF n < 10 THEN <<DigitChars[n + 1]>>
    ELSE NatStr(n \div 10) \o <<DigitChars[(n % 10) + 1]>>

IntStr(n) == IF n < 0 THEN <<"-">> \o NatStr(0 - n) ELSE NatStr(n)

(***************************************************************************)
(* csv.reader(f, delimiter=deli): one record per line.  The line's trailing *)
(* CR/LF run ends the record, an empty line is the empty record, a line    *)
(* break followed by more text on the same line is a csv.Error.  The       *)
(* alphabet of the model holds no quote characters.                        *)
(***************************************************************************)
RECURSIVE Split(_, _)
Split(s, d) ==
    IF \E k \in 1..Len(s) : s[k] = d
    THEN LET k == CHOOSE j \in 1..Len(s) : s[j] = d /\ \A m \in 1..(j - 1) : s[m] # d
         IN  <<SubSeq(s, 1, k - 1)>> \o Split(SubSeq(s, k + 1, Len(s)), d)
    ELSE <<s>>

CsvRow(line, d) ==
    LET body == RStripEOL(line)
    IN  IF \E k \in 1..Len(body) : IsEOL(body[k])
        THEN [ok |-> FALSE, row |-> <<>>]
        ELSE [ok |-> TRUE, row |-> IF body = <<>> THEN <<>> ELSE Split(body, d)]

\* mutant: the line is handed over without its line terminator
NextLineStripped(f, p) == RStripEOL(f[p + 1])

\* next(f): the next line of the file, verbatim (its terminator included);
\* p lines are consumed already
NextLine(f, p) == f[p + 1]

\* if (useTab): deli = '\t'
TabOverride(d, tab) == IF tab THEN "\t" ELSE d

EffDeli == TabOverride(deli, useTab)

(***************************************************************************)
(* The table.  A column is [name, vals]; pdo is the sequence of columns.   *)
(***************************************************************************)
\* mutant: an empty list is refused
NumpyToVtkNonEmpty(col) ==
    IF col # <<>> /\ \A r \in 1..Len(col) : ParseNum(col[r]).ok
    THEN [ok |-> TRUE, vals |-> [r \in 1..Len(col) |-> ParseNum(col[r]).val]]
    ELSE [ok |-> FALSE, vals |-> <<>>]

\* mutant: a string that is no number becomes 0
NumpyToVtkLenient(col) ==
    [ok |-> TRUE, vals |-> [r \in 1..Len(col) |-> ParseNum(col[r]).val]]

\* nps.numpy_to_vtk(num_array=col, array_type=VTK_FLOAT) on a list of
\* strings: every string is converted to a number, or the call raises.
NumpyToVtk(col) ==
    IF \A r \in 1..Len(col) : ParseNum(col[r]).ok
    THEN [ok |-> TRUE, vals |-> [r \in 1..Len(col) |-> ParseNum(col[r]).val]]
    ELSE [ok |-> FALSE, vals |-> <<>>]

\* pdo.AddColumn(arr).  vtkTable::AddColumn refuses a column whose length
\* differs from the table's rows and otherwise hands the array to its row
\* data, vtkFieldData::AddArray, which keeps one array per name: "if an array
\* with the same name already exists, the added array will replace it".
AddColumn(t, arr) ==
    IF t # <<>> /\ Len(arr.vals) # Len(t[1].vals) THEN t
    ELSE IF \E k \in 1..Len(t) : t[k].name = arr.name
    THEN LET k == CHOOSE j \in 1..Len(t) : t[j].name = arr.name
         IN  [t EXCEPT ![k] = arr]
    ELSE Append(t, arr)

\* col = [];  for row in data: col.append(row[i])      (i counted from 0)
ColumnFits(rows, k) == \A r \in 1..Len(rows) : Len(rows[r]) > k

\* mutant: the first field of every row, whatever the column
ProjectFirst(rows, k) == [r \in 1..Len(rows) |-> rows[r][1]]

Project(rows, k) == [r \in 1..Len(rows) |-> rows[r][k + 1]]

\* mutant: titles counted from 1
FieldTitleFromOne(k) == <<"F", "i", "e", "l", "d">> \o IntStr(k + 1)

\* 'Field' + str(i)
FieldTitle(k) == <<"F", "i", "e", "l", "d">> \o IntStr(k)

(***************************************************************************)
(* Packed binaries.                                                        *)
(***************************************************************************)
FloatBytes == 4
DoubleBytes == 8

NumBytes(dbl) == IF dbl THEN DoubleBytes ELSE FloatBytes

\* mutant: the little-endian value
RECURSIVE LEWord(_)
LEWord(bs) ==
    IF bs = <<>> THEN 0
    ELSE bs[1] + 256 * LEWord(Tail(bs))

\* the big-endian value of a 4-byte word
RECURSIVE BEWord(_)
BEWord(bs) ==
    IF bs = <<>> THEN 0
    ELSE 256 * BEWord(SubSeq(bs, 1, Len(bs) - 1)) + bs[Len(bs)]

\* one element of struct.unpack('>..f') or ('>..d'): the element's bit
\* pattern, most significant byte first; a double is its high and low word.
\* (The IEEE reading of the pattern, and the narrowing of a double to the
\* VTK_FLOAT column at line 119, are one-to-one on the patterns kept here.)
DecodeBE(bs) ==
    IF Len(bs) = FloatBytes THEN BEWord(bs)
    ELSE <<BEWord(SubSeq(bs, 1, 4)), BEWord(SubSeq(bs, 5, 8))>>

\* struct.unpack('>' + count + typ, buf): buf must hold exactly count elements
Unpack(count, w, buf) ==
    IF Len(buf) # count * w THEN [ok |-> FALSE, vals |-> <<>>]
    ELSE [ok |-> TRUE,
          vals |-> [k \in 1..count |->
                       DecodeBE(SubSeq(buf, (k - 1) * w + 1, k * w))]]

\* file.read(n) on a freshly opened file
ReadBytes(bytes, n) == SubSeq(bytes, 1, Min(n, Len(bytes)))

\* os.path.basename(FileName)
FileName == <<"d", "/", "f">>

RECURSIVE BaseName(_)
BaseName(p) ==
    IF \E k \in 1..Len(p) : p[k] = "/"
    THEN LET k == CHOOSE j \in 1..Len(p) : p[j] = "/" IN BaseName(SubSeq(p, k + 1, Len(p)))
    ELSE p

\* tn = os.stat(FileName).st_size / num_bytes      (Python 2: floor division)
ElementCount(size, w) == size \div w

(***************************************************************************)
(* The GSLIB file format, as section 6 of the specification lays it out:   *)
(* title line, N, the N titles, then one delimiter-separated row per line. *)
(***************************************************************************)
RECURSIVE Join(_, _)
Join(fields, d) ==
    IF fields = <<>> THEN <<>>
    ELSE IF Len(fields) = 1 THEN fields[1]
    ELSE fields[1] \o <<d>> \o Join(Tail(fields), d)

TableRows(t) == IF t = <<>> THEN 0 ELSE Len(t[1].vals)

WriteGSLIB(hdr, t, d) ==
    <<hdr \o <<"\n">>, IntStr(Len(t)) \o <<"\n">>>>
    \o [c \in 1..Len(t) |-> t[c].name \o <<"\n">>]
    \o [r \in 1..TableRows(t) |->
           Join([c \in 1..Len(t) |-> IntStr(t[c].vals[r])], d) \o <<"\n">>]

(***************************************************************************)
(* Inputs.                                                                 *)
(***************************************************************************)
SeqsUpTo(S, n) == UNION {[1..m -> S] : m \in 0..n}

\* lines of arbitrary text files
LinePool ==
    { <<"T", "\n">>,              \* a word
      <<"1", "\n">>,              \* a numeral
      <<"2", "\n">>,
      <<"1", " ", "2", "\n">>,    \* two numerals
      <<"\n">>,                   \* an empty line
      <<"X", "\r", "\n">> }       \* a word, CRLF-terminated

TextFiles == SeqsUpTo(LinePool, MaxLines)

ByteFiles == SeqsUpTo({0, 1}, MaxBytes)

\* (deli, useTab) arguments
DeliArgs == { <<" ", FALSE>>, <<"-", FALSE>>, <<"-", TRUE>> }

\* tables that are written in the GSLIB format and read back
TitleSeqs ==
    { <<>>, << <<"X">> >>, << <<"X", "\r">> >>,
      << <<"X">>, <<"Y">> >>, << <<"Y">>, <<"X">> >>, << <<"X", "\r">>, <<"Y">> >> }

CellValues == {0 - 1, 2, 10}

TablesOf(ts) ==
    IF ts = <<>> THEN { <<>> }
    ELSE UNION { { [c \in 1..Len(ts) |-> [name |-> ts[c], vals |-> cols[c]]] :
                     cols \in [1..Len(ts) -> [1..r -> CellValues]] } :
                 r \in 0..MaxRows }

DemoHeader == <<"D", "e", "m", "o">>

DemoTable == << [name |-> <<"X">>, vals |-> <<1, 3>>],
                [name |-> <<"Y">>, vals |-> <<2, 4>>] >>

Tables == UNION { TablesOf(ts) : ts \in TitleSeqs } \cup {DemoTable}

InitLocals ==
    /\ pc = "call" /\ fh = "unopened" /\ pos = 0 /\ i = 0
    /\ header = <<>> /\ numCols = 0 /\ titles = <<>> /\ data = <<>>
    /\ tn = 0 /\ raw = <<>> /\ pdo = <<>> /\ ret = <<>> /\ err = ""

\* a text reader on an arbitrary file, or on a path that is no file
InitText ==
    /\ fn \in {"readGSLIB", "readDelimetedFile"}
    /\ \E f \in TextFiles, e \in BOOLEAN :
          /\ (~e => f = <<>>)
          /\ content = f /\ exists = e
    /\ written = FALSE /\ srcTable = <<>>
    /\ \E a \in DeliArgs : deli = a[1] /\ useTab = a[2]
    /\ numIgLns \in 0..MaxSkip
    /\ hasTits \in (IF fn = "readGSLIB" THEN {TRUE} ELSE BOOLEAN)
    /\ dblVals = FALSE /\ dataNm = <<>>

\* readGSLIB on a file written from a table with the delimiter it is read with
InitWritten ==
    /\ fn = "readGSLIB"
    /\ \E a \in DeliArgs : deli = a[1] /\ useTab = a[2]
    /\ srcTable \in Tables
    /\ written = TRUE /\ exists = TRUE
    /\ content = WriteGSLIB(DemoHeader, srcTable, TabOverride(deli, useTab))
    /\ numIgLns = 0 /\ hasTits = TRUE
    /\ dblVals = FALSE /\ dataNm = <<>>

InitPacked ==
    /\ fn = "readPackedBinaries"
    /\ \E f \in ByteFiles, e \in BOOLEAN :
          /\ (~e => f = <<>>)
          /\ content = f /\ exists = e
    /\ written = FALSE /\ srcTable = <<>>
    /\ deli = " " /\ useTab = FALSE /\ numIgLns = 0 /\ hasTits = TRUE
    /\ dblVals \in BOOLEAN
    /\ dataNm \in { <<>>, <<"v">> }

Init == InitLocals /\ (InitText \/ InitWritten \/ InitPacked)

(***************************************************************************)
(* The calls.                                                              *)
(***************************************************************************)
args == <<fn, exists, content, written, srcTable, useTab, numIgLns, hasTits,
          dblVals, dataNm>>

\* mutant: the file is left open
WithExitLeak(h) == h

\* the with statement's exit, on leaving its block normally or by a raise
WithExit(h) == IF h = "open" THEN "closed" ELSE h

\* an exception e leaves the function: nothing is returned
Raise(e) ==
    /\ pc' = "failed"
    /\ err' = e
    /\ fh' = WithExit(fh)
    /\ ret' = ret

\* mutant: no line is skipped
AfterSkipNone(k) == IF fn = "readGSLIB" THEN "header" ELSE "titles"

\* for i in range(numIgLns): next(f)         -- where control goes after k passes
AfterSkip(k) == IF k < numIgLns THEN "skip" ELSE IF fn = "readGSLIB" THEN "header" ELSE "titles"

\* for row in reader: data.append(row)   and the end of the with block
ReadRow ==
    IF pos < Len(content)
    THEN LET r == CsvRow(NextLine(content, pos), deli)
         IN  IF r.ok
             THEN /\ data' = Append(data, r.row)
                  /\ pos' = pos + 1
                  /\ UNCHANGED <<pc, fh, ret, err, i>>
             ELSE /\ Raise("csv.Error")
                  /\ UNCHANGED <<data, pos, i>>
    ELSE /\ fh' = WithExit(fh)
         /\ pc' = "cols"
         /\ i' = 0
         /\ UNCHANGED <<data, pos, ret, err>>

\* one pass of "for i in range(...)": gather column i, convert it, add it
PutColumn ==
    IF ~ColumnFits(data, i)
    THEN Raise("IndexError") /\ UNCHANGED <<pdo, i>>
    ELSE LET v == NumpyToVtk(Project(data, i))
         IN  IF ~v.ok
             THEN Raise("ValueError") /\ UNCHANGED <<pdo, i>>
             ELSE /\ pdo' = AddColumn(pdo, [name |-> titles[i + 1], vals |-> v.vals])
                  /\ i' = i + 1
                  /\ UNCHANGED <<pc, fh, ret, err>>

(* readGSLIB *)
G_Call ==
    /\ pc = "call" /\ fn = "readGSLIB"
    /\ deli' = TabOverride(deli, useTab)
    /\ IF exists
       THEN fh' = "open" /\ pc' = AfterSkip(0) /\ UNCHANGED <<ret, err>>
       ELSE Raise("IOError")
    /\ UNCHANGED <<args, pos, i, header, numCols, titles, data, tn, raw, pdo>>

G_Skip ==
    /\ pc = "skip" /\ fn = "readGSLIB"
    /\ IF pos < Len(content)
       THEN /\ pos' = pos + 1 /\ i' = i + 1 /\ pc' = AfterSkip(i + 1)
            /\ UNCHANGED <<fh, ret, err>>
       ELSE Raise("StopIteration") /\ UNCHANGED <<pos, i>>
    /\ UNCHANGED <<args, deli, header, numCols, titles, data, tn, raw, pdo>>

G_Header ==
    /\ pc = "header" /\ fn = "readGSLIB"
    /\ IF pos < Len(content)
       THEN /\ header' = NextLine(content, pos) /\ pos' = pos + 1 /\ pc' = "numCols"
            /\ UNCHANGED <<fh, ret, err>>
       ELSE Raise("StopIteration") /\ UNCHANGED <<pos, header>>
    /\ UNCHANGED <<args, deli, i, numCols, titles, data, tn, raw, pdo>>

G_NumCols ==
    /\ pc = "numCols" /\ fn = "readGSLIB"
    /\ IF pos < Len(content)
       THEN LET n == ParseNum(NextLine(content, pos))
            IN  /\ pos' = pos + 1
                /\ IF n.ok
                   THEN /\ numCols' = n.val /\ i' = 0
                        /\ pc' = IF 0 < n.val THEN "gtitles" ELSE "rows"
                        /\ UNCHANGED <<fh, ret, err>>
                   ELSE Raise("ValueError") /\ UNCHANGED <<numCols, i>>
       ELSE Raise("StopIteration") /\ UNCHANGED <<pos, numCols, i>>
    /\ UNCHANGED <<args, deli, header, titles, data, tn, raw, pdo>>

G_Title ==
    /\ pc = "gtitles" /\ fn = "readGSLIB"
    /\ IF pos < Len(content)
       THEN /\ titles' = Append(titles, RStripEOL(NextLine(content, pos)))
            /\ pos' = pos + 1 /\ i' = i + 1
            /\ pc' = IF i + 1 < numCols THEN "gtitles" ELSE "rows"
            /\ UNCHANGED <<fh, ret, err>>
       ELSE Raise("StopIteration") /\ UNCHANGED <<pos, i, titles>>
    /\ UNCHANGED <<args, deli, header, numCols, data, tn, raw, pdo>>

G_Row ==
    /\ pc = "rows" /\ fn = "readGSLIB"
    /\ ReadRow
    /\ UNCHANGED <<args, deli, header, numCols, titles, tn, raw, pdo>>

G_Col ==
    /\ pc = "cols" /\ fn = "readGSLIB" /\ i < numCols
    /\ PutColumn
    /\ UNCHANGED <<args, deli, pos, header, numCols, titles, data, tn, raw>>

G_Return ==
    /\ pc = "cols" /\ fn = "readGSLIB" /\ i >= numCols
    /\ ret' = <<pdo, header>>
    /\ pc' = "done"
    /\ UNCHANGED <<args, deli, fh, pos, i, header, numCols, titles, data, tn,
                   raw, pdo, err>>

(* readDelimetedFile *)
D_Call ==
    /\ pc = "call" /\ fn = "readDelimetedFile"
    /\ deli' = TabOverride(deli, useTab)
    /\ IF exists
       THEN fh' = "open" /\ pc' = AfterSkip(0) /\ UNCHANGED <<ret, err>>
       ELSE Raise("IOError")
    /\ UNCHANGED <<args, pos, i, header, numCols, titles, data, tn, raw, pdo>>

D_Skip ==
    /\ pc = "skip" /\ fn = "readDelimetedFile"
    /\ IF pos < Len(content)
       THEN IF CsvRow(NextLine(content, pos), deli).ok
            THEN /\ pos' = pos + 1 /\ i' = i + 1 /\ pc' = AfterSkip(i + 1)
                 /\ UNCHANGED <<fh, ret, err>>
            ELSE Raise("csv.Error") /\ UNCHANGED <<pos, i>>
       ELSE Raise("StopIteration") /\ UNCHANGED <<pos, i>>
    /\ UNCHANGED <<args, deli, header, numCols, titles, data, tn, raw, pdo>>

D_Titles ==
    /\ pc = "titles" /\ fn = "readDelimetedFile"
    /\ IF pos < Len(content)
       THEN LET r == CsvRow(NextLine(content, pos), deli)
            IN  IF r.ok
                THEN /\ pos' = pos + 1 /\ pc' = "rows"
                     /\ IF hasTits
                        THEN titles' = r.row /\ data' = data
                        ELSE /\ data' = Append(data, r.row)
                             /\ titles' = [k \in 1..Len(r.row) |-> FieldTitle(k - 1)]
                     /\ UNCHANGED <<fh, ret, err>>
                ELSE Raise("csv.Error") /\ UNCHANGED <<pos, titles, data>>
       ELSE Raise("StopIteration") /\ UNCHANGED <<pos, titles, data>>
    /\ UNCHANGED <<args, deli, i, header, numCols, tn, raw, pdo>>

D_Row ==
    /\ pc = "rows" /\ fn = "readDelimetedFile"
    /\ ReadRow
    /\ UNCHANGED <<args, deli, header, numCols, titles, tn, raw, pdo>>

D_Col ==
    /\ pc = "cols" /\ fn = "readDelimetedFile" /\ i < Len(titles)
    /\ PutColumn
    /\ UNCHANGED <<args, deli, pos, header, numCols, titles, data, tn, raw>>

D_Return ==
    /\ pc = "cols" /\ fn = "readDelimetedFile" /\ i >= Len(titles)
    /\ ret' = <<pdo>>
    /\ pc' = "done"
    /\ UNCHANGED <<args, deli, fh, pos, i, header, numCols, titles, data, tn,
                   raw, pdo, err>>

(* readPackedBinaries *)
P_Call ==
    /\ pc = "call" /\ fn = "readPackedBinaries"
    /\ IF exists
       THEN /\ tn' = ElementCount(Len(content), NumBytes(dblVals))
            /\ pc' = "open"
            /\ UNCHANGED <<fh, ret, err>>
       ELSE Raise("OSError") /\ tn' = tn
    /\ UNCHANGED <<args, deli, pos, i, header, numCols, titles, data, raw, pdo>>

P_Open ==
    /\ pc = "open" /\ fn = "readPackedBinaries"
    /\ fh' = "open"
    /\ pc' = "unpack"
    /\ UNCHANGED <<args, deli, pos, i, header, numCols, titles, data, tn, raw,
                   pdo, ret, err>>

P_Unpack ==
    /\ pc = "unpack" /\ fn = "readPackedBinaries"
    /\ LET w == NumBytes(dblVals)
           count == ParseNum(IntStr(tn)).val      \* '>' + str(tn) + typ
           u == Unpack(count, w, ReadBytes(content, w * tn))
       IN  IF u.ok
           THEN /\ raw' = u.vals
                /\ fh' = WithExit(fh)
                /\ pc' = "table"
                /\ UNCHANGED <<ret, err>>
           ELSE Raise("struct.error") /\ raw' = raw
    /\ UNCHANGED <<args, deli, pos, i, header, numCols, titles, data, tn, pdo>>

P_Table ==
    /\ pc = "table" /\ fn = "readPackedBinaries"
    /\ LET name == IF dataNm = <<>> THEN BaseName(FileName) ELSE dataNm
       IN  /\ pdo' = AddColumn(pdo, [name |-> name, vals |-> raw])
           /\ ret' = <<pdo'>>
    /\ pc' = "done"
    /\ UNCHANGED <<args, deli, fh, pos, i, header, numCols, titles, data, tn,
                   raw, err>>

Next ==
    \/ G_Call \/ G_Skip \/ G_Header \/ G_NumCols \/ G_Title \/ G_Row \/ G_Col
    \/ G_Return
    \/ D_Call \/ D_Skip \/ D_Titles \/ D_Row \/ D_Col \/ D_Return
    \/ P_Call \/ P_Open \/ P_Unpack \/ P_Table

Spec == Init /\ [][Next]_vars

Terminated == pc \in {"done", "failed"}

(***************************************************************************)
(* What a file holds, read off the file itself.                            *)
(***************************************************************************)
Distinct(q) == \A a, b \in 1..Len(q) : a # b => q[a] # q[b]

Names(t) == [c \in 1..Len(t) |-> t[c].name]

\* readGSLIB: the k-th line after the skipped ones
GLine(k) == content[numIgLns + k]

GHasCount == exists /\ Len(content) >= numIgLns + 2 /\ ParseNum(GLine(2)).ok

GCount == ParseNum(GLine(2)).val

GStructOK == GHasCount /\ GCount >= 0 /\ Len(content) >= numIgLns + 2 + GCount

GTitles == [c \in 1..GCount |-> RStripEOL(GLine(2 + c))]

GRows ==
    [r \in 1..(Len(content) - numIgLns - 2 - GCount) |->
        CsvRow(GLine(2 + GCount + r), EffDeli)]

\* every row parses, has at least n fields, and its first n fields are numerals
RowsGood(rows, n) ==
    \A r \in 1..Len(rows) :
        /\ rows[r].ok
        /\ Len(rows[r].row) >= n
        /\ \A c \in 1..n : ParseNum(rows[r].row[c]).ok

\* column c of the rows, as numbers
NumColumn(rows, c) == [r \in 1..Len(rows) |-> ParseNum(rows[r].row[c]).val]

\* readDelimetedFile: the first line after the skipped ones, and the data
DHasFirst == exists /\ Len(content) >= numIgLns + 1

DFirst == CsvRow(content[numIgLns + 1], EffDeli)

DRows ==
    LET from == IF hasTits THEN numIgLns + 2 ELSE numIgLns + 1
    IN  [r \in 1..(Len(content) - from + 1) |-> CsvRow(content[from + r - 1], EffDeli)]

\* a valid readGSLIB input: the declared structure is there, the titles are
\* distinct column names, every row holds at least N fields, the first N numeric
ValidGslib == GStructOK /\ Distinct(GTitles) /\ RowsGood(GRows, GCount)

(***************************************************************************)
(* C1: for a valid readGSLIB input declaring N columns and holding R data  *)
(* rows (N distinct titles, every row with at least N fields, the first N  *)
(* numeric), the call returns a table of exactly N columns, column c named *)
(* by the c-th title line and holding the c-th field of every row in file  *)
(* order, so of length R.                                                  *)
(***************************************************************************)
C1_GslibColumns ==
    (fn = "readGSLIB" /\ Terminated /\ ValidGslib) =>
        /\ pc = "done"
        /\ Len(ret[1]) = GCount
        /\ \A c \in 1..GCount :
              /\ ret[1][c].name = GTitles[c]
              /\ ret[1][c].vals = NumColumn(GRows, c)
              /\ Len(ret[1][c].vals) = Len(GRows)

C1_Witness ==
    /\ fn = "readGSLIB" /\ pc = "done" /\ ValidGslib
    /\ GCount = 2 /\ Len(GRows) = 2
    /\ ret[1][1].vals # ret[1][2].vals

(***************************************************************************)
(* C2: readPackedBinaries fails whenever the file size is no exact         *)
(* multiple of the element width; it never returns a table for such a file.*)
(***************************************************************************)
C2_RejectsPartialElement ==
    (fn = "readPackedBinaries" /\ exists /\ Terminated
        /\ Len(content) % NumBytes(dblVals) # 0) => pc = "failed"

(***************************************************************************)
(* C3: readDelimetedFile and the first line after the skipped ones.  Flag  *)
(* unset: one column per field of that line, titled Field0, Field1, ...,   *)
(* and the line's values are the first row of every column.  Flag set: the *)
(* line's fields are the column titles and the line is no data row.        *)
(***************************************************************************)
C3_FirstLine ==
    (fn = "readDelimetedFile" /\ pc = "done") =>
        /\ DHasFirst /\ DFirst.ok
        /\ ~hasTits =>
              /\ Len(ret[1]) = Len(DFirst.row)
              /\ \A c \in 1..Len(DFirst.row) :
                    /\ ret[1][c].name = <<"F", "i", "e", "l", "d">> \o IntStr(c - 1)
                    /\ Len(ret[1][c].vals) = Len(content) - numIgLns
                    /\ ret[1][c].vals[1] = ParseNum(DFirst.row[c]).val
        /\ hasTits =>
              /\ \A c \in 1..Len(ret[1]) :
                    /\ \E k \in 1..Len(DFirst.row) : ret[1][c].name = DFirst.row[k]
                    /\ Len(ret[1][c].vals) = Len(content) - numIgLns - 1
              /\ \A k \in 1..Len(DFirst.row) :
                    \E c \in 1..Len(ret[1]) : ret[1][c].name = DFirst.row[k]
              /\ Distinct(DFirst.row) => Names(ret[1]) = DFirst.row

C3_Witness ==
    /\ fn = "readDelimetedFile" /\ pc = "done" /\ ~hasTits
    /\ Len(ret[1]) = 2 /\ Len(ret[1][1].vals) = 2
    /\ ret[1][2].name = <<"F", "i", "e", "l", "d", "1">>

(***************************************************************************)
(* C4: readGSLIB returns as its second value the first line after the      *)
(* skipped ones; for "Demo\n2\nX\nY\n1 2\n3 4\n", space delimiter and no   *)
(* skipped lines, the columns are X = [1, 3], Y = [2, 4].                  *)
(***************************************************************************)
DemoFile ==
    << <<"D", "e", "m", "o", "\n">>, <<"2", "\n">>, <<"X", "\n">>, <<"Y", "\n">>,
       <<"1", " ", "2", "\n">>, <<"3", " ", "4", "\n">> >>

IsDemoCall ==
    fn = "readGSLIB" /\ exists /\ content = DemoFile /\ EffDeli = " " /\ numIgLns = 0

\* C4 as stated: the header returned for the example is exactly "Demo"
C4_HeaderIsDemo ==
    (IsDemoCall /\ Terminated) =>
        pc = "done" /\ ret = <<DemoTable, <<"D", "e", "m", "o">> >>

\* C4 amended: the second value is the first line after the skipped ones
\* verbatim, its line terminator included ("Demo\n" for the example), and the
\* example's columns are X = [1, 3], Y = [2, 4]
C4_HeaderVerbatim ==
    /\ (fn = "readGSLIB" /\ pc = "done") => ret[2] = content[numIgLns + 1]
    /\ (IsDemoCall /\ Terminated) =>
          pc = "done" /\ ret = <<DemoTable, <<"D", "e", "m", "o", "\n">> >>

C4_Witness == IsDemoCall /\ pc = "done" /\ Len(ret[2]) = 5

(***************************************************************************)
(* C5: a readGSLIB file with no line after its N title lines is read       *)
(* without error into a table of exactly N columns, each of length zero.   *)
(***************************************************************************)
EmptyData == GStructOK /\ Len(content) = numIgLns + 2 + GCount

\* C5 as stated: whatever the N titles are, N columns of length zero
C5_EmptyDataAnyTitles ==
    (fn = "readGSLIB" /\ Terminated /\ EmptyData) =>
        /\ pc = "done"
        /\ Len(ret[1]) = GCount
        /\ \A c \in 1..Len(ret[1]) : ret[1][c].vals = <<>>

\* C5 amended: provided the N titles are pairwise distinct, the read succeeds
\* with N columns of length zero, named by the titles in order
C5_EmptyData ==
    (fn = "readGSLIB" /\ Terminated /\ EmptyData /\ Distinct(GTitles)) =>
        /\ pc = "done"
        /\ Len(ret[1]) = GCount
        /\ Names(ret[1]) = GTitles
        /\ \A c \in 1..Len(ret[1]) : ret[1][c].vals = <<>>

C5_Witness ==
    /\ fn = "readGSLIB" /\ pc = "done" /\ EmptyData
    /\ GCount = 2 /\ Len(ret[1]) = 2 /\ ret[1][2].vals = <<>>

\* either text reader: the lines before the data are there; the number of
\* columns; the data rows
TextStructOK ==
    IF fn = "readGSLIB" THEN GStructOK ELSE DHasFirst /\ DFirst.ok

TextCols == IF fn = "readGSLIB" THEN GCount ELSE Len(DFirst.row)

TextRows == IF fn = "readGSLIB" THEN GRows ELSE DRows

(***************************************************************************)
(* C6: in both text readers a data row with fewer fields than there are    *)
(* columns, or a non-numeric field among those projected, makes the call   *)
(* raise: nothing is returned, not even the columns already built.  Rows   *)
(* with at least that many fields are accepted.                            *)
(***************************************************************************)
C6_RaggedOrNonNumericAborts ==
    /\ pc # "done" => ret = <<>>
    /\ (fn \in {"readGSLIB", "readDelimetedFile"} /\ Terminated /\ TextStructOK) =>
          IF RowsGood(TextRows, TextCols)
          THEN pc = "done"
          ELSE pc = "failed" /\ ret = <<>> /\ err \in {"IndexError", "ValueError"}

\* a ragged row met after a first column was already added to the table
C6_Witness ==
    /\ fn = "readDelimetedFile" /\ pc = "failed" /\ err = "IndexError"
    /\ pdo # <<>> /\ ret = <<>>
    /\ ~RowsGood(TextRows, TextCols)

(***************************************************************************)
(* C7: for a file of exactly k elements readPackedBinaries returns a table *)
(* of one column holding the k elements in file order, each decoded        *)
(* big-endian; an empty file gives one column of length zero.              *)
(***************************************************************************)
\* bytes o+1 .. o+4 of the file as a number, first byte most significant
Word32(o) ==
    16777216 * content[o + 1] + 65536 * content[o + 2]
        + 256 * content[o + 3] + content[o + 4]

ExpectedElement(k) ==
    IF dblVals THEN <<Word32(8 * (k - 1)), Word32(8 * (k - 1) + 4)>>
    ELSE Word32(4 * (k - 1))

C7_WitnessEmpty ==
    fn = "readPackedBinaries" /\ pc = "done" /\ content = <<>> /\ ret[1][1].vals = <<>>

(***************************************************************************)
(* C8: readGSLIB on a file that ends before the skipped lines, the title   *)
(* line, the count line and the N title lines are read raises the          *)
(* end-of-input error (StopIteration) and returns nothing; while skipping, *)
(* nothing else can make the call fail.                                    *)
(***************************************************************************)
EndsEarly ==
    /\ exists
    /\ \/ Len(content) < numIgLns + 2
       \/ GHasCount /\ Len(content) < numIgLns + 2 + GCount

\* C8: a readGSLIB file that ends early makes the call raise StopIteration and
\* return nothing; a failure while skipping is that end of input, nothing else
C8_EndOfInput ==
    /\ (fn = "readGSLIB" /\ Terminated /\ EndsEarly) =>
          pc = "failed" /\ err = "StopIteration" /\ ret = <<>>
    /\ (fn = "readGSLIB" /\ pc = "failed" /\ exists /\ pos < numIgLns) =>
          err = "StopIteration" /\ Len(content) < numIgLns

C8_Witness ==
    /\ fn = "readGSLIB" /\ pc = "failed" /\ err = "StopIteration"
    /\ GHasCount /\ GCount = 2 /\ Len(titles) = 1

C8_WitnessSkip ==
    fn = "readGSLIB" /\ pc = "failed" /\ numIgLns = 1 /\ content = <<>> /\ exists

(***************************************************************************)
(* C9: writing a table in the GSLIB format and reading it back with the    *)
(* same delimiter gives the table's titles, in order, and its values.      *)
(***************************************************************************)
\* C9 as stated: for every table, reading back what was written returns it
C9_RoundTripAnyTable ==
    (written /\ Terminated) => pc = "done" /\ ret[1] = srcTable

NoEOL(s) == \A k \in 1..Len(s) : ~IsEOL(s[k])

DeliFree(s) == \A k \in 1..Len(s) : s[k] # EffDeli

\* no title holds a CR or LF, and no written numeral holds the delimiter
RoundTrippable(t) ==
    \A c \in 1..Len(t) :
        /\ NoEOL(t[c].name)
        /\ \A r \in 1..Len(t[c].vals) : DeliFree(IntStr(t[c].vals[r]))

\* C9 amended: for every table whose titles hold no CR or LF and whose written
\* numerals do not hold the delimiter, reading back what was written returns
\* the table's titles, in order, and its values
C9_RoundTrip ==
    (written /\ Terminated /\ RoundTrippable(srcTable)) =>
        pc = "done" /\ ret[1] = srcTable

C9_Witness ==
    /\ written /\ pc = "done" /\ RoundTrippable(srcTable)
    /\ Len(srcTable) = 2 /\ Len(srcTable[1].vals) = 2
    /\ srcTable[1].vals[1] < 0 /\ srcTable[2].vals[2] = 10
    /\ ret[1] = srcTable

(***************************************************************************)
(* C10: the file a call opened is closed whenever the call has ended, by   *)
(* return or by a raise, and columns are built only once it is closed.     *)
(***************************************************************************)
C10_HandleReleased ==
    /\ Terminated => fh # "open"
    /\ (Terminated /\ exists) => fh = "closed"
    /\ pc \in {"cols", "table"} => fh = "closed"
    /\ pdo # <<>> => fh = "closed"

C10_Witness ==
    /\ pc = "failed" /\ fh = "closed" /\ err = "ValueError" /\ pos > 0 /\ pdo = <<>>
    /\ fn = "readGSLIB" /\ numCols = 0

C10_WitnessReturn == pc = "done" /\ fh = "closed" /\ fn = "readDelimetedFile"

====
